---- MODULE Spec2Model ----
(***************************************************************************)
(* PetDealz backend: listing and media persistence.                        *)
(*                                                                         *)
(* The repository holds six near-duplicate Express servers that differ in  *)
(* the media backend and in how the acting user is identified:             *)
(*   "gridfs_listing"  src/server.js            GridFS, JSON /post-listing *)
(*   "session_cloud"   src/unnamed/part_000:1    session + Cloudinary       *)
(*   "body_cloud"      src/unnamed/part_000:185  body userId + Cloudinary   *)
(*   "token_cloud"     src/unnamed/part_001      JWT + Cloudinary           *)
(*   "gridfs_mem"      src/unnamed/part_002      GridFS + memoryStorage     *)
(*   "disk"            src/unnamed/part_003      multer.diskStorage         *)
(* A behaviour of the model is a run of one of them (variant is fixed by   *)
(* Init).  Requests are handled concurrently: every middleware and every   *)
(* asynchronous completion is a step of its own.                           *)
(***************************************************************************)
EXTENDS Integers, Sequences, FiniteSets, TLC

\* ------------------------------------------------------------------ bounds
MaxReq == 2          \* requests to /post-listing and /upload in one run
MaxMultipart == 1    \* of them, multipart requests to /post-listing
MaxUsers == 1        \* registered users
MaxClock == 1        \* Date.now() takes the values 0..MaxClock
MaxLag == 1          \* a write may still be pending when this many later files have arrived
MaxInFlight == 1     \* requests between arrival and response at once
MaxRuns == 3         \* runs of one character in a description given to the policy
MaxSignups == 3      \* concurrent requests to /signup

\* ------------------------------------------------------- program constants
MaxCount == 6        \* upload.array("media", 6)
MinDigits == 10      \* \d{10,}

Variants ==
    {"gridfs_listing", "session_cloud", "body_cloud", "token_cloud", "gridfs_mem", "disk"}

Emails == {"a@x"}
FileNames == {"a.jpg"}

\* ----------------------------------------------------------- descriptions
\* A description is a sequence of characters.
Digits == {"0", "1", "2", "3", "4", "5", "6", "7", "8", "9"}
Letters == {"a", "c", "e", "l", "t"}
IsDigit(c) == c \in Digits
\* \w of a JavaScript regular expression: [A-Za-z0-9_]
IsWordChar(c) == c \in Digits \cup Letters \cup {"_"}

\* \b at the gap before position i (1..Len(s)+1) of s
WordBoundary(s, i) ==
    LET before == i > 1 /\ IsWordChar(s[i - 1])
        after == i <= Len(s) /\ IsWordChar(s[i])
    IN before # after

\* /\b\d{10,}\b/.test(s): some i..j of at least MinDigits digits with a word
\* boundary on both sides
PhoneRegexTest(s) ==
    \E i \in 1..Len(s) : \E j \in i..Len(s) :
        /\ j - i + 1 >= MinDigits
        /\ \A k \in i..j : IsDigit(s[k])
        /\ WordBoundary(s, i)
        /\ WordBoundary(s, j + 1)

DescFriendly == <<"l", "e", "t">>
DescPhone == <<"c", "a", "l", "l", " ", "5", "5", "5", "1", "2", "3", "4", "5", "6", "7">>
DescUnread == <<>>
DescSamples == {DescFriendly, DescPhone}

\* ------------------------------------------------------------------- keys
\* Every media reference is a string in the program; the model keeps the
\* parts the string is built from.
Key(kind, owner, time, name, oid) ==
    [kind |-> kind, owner |-> owner, time |-> time, name |-> name, oid |-> oid]
NullRef == Key("null", 0, 0, "", 0)
\* uploadStream.id.toString()
OidString(n) == Key("oid", 0, 0, "", n)
\* req.file.originalname
NameString(f) == Key("name", 0, 0, f, 0)

\* multer.diskStorage filename: Date.now() + "-" + file.originalname
DiskFilename(t, f) == Key("disk", 0, t, f, 0)
\* CloudinaryStorage public_id: `${userId}_${Date.now()}`
PublicId(uid, t) == Key("cloud", uid, t, "", 0)

\* ------------------------------------------------------------ credentials
Cred(kind, uid, sig) == [kind |-> kind, uid |-> uid, sig |-> sig]
NoCred == Cred("none", 0, "")
\* jwt.verify(token, secret, cb): err is set unless the signature is ours
JwtVerify(cred) == cred.kind = "token" /\ cred.sig = "ok"

\* ------------------------------------------------------------------ state
VARIABLES
    variant,       \* which of the six servers runs
    users,         \* User collection
    session,       \* req.session.userId of the browser session (0: unset)
    gridFSBucket,  \* TRUE once conn.once("open") has assigned the handle
    now,           \* Date.now()
    nextOid,       \* next ObjectId of a GridFS file
    blobs,         \* contents of the media backend
    listings,      \* Listing collection, in insertion order
    reqs,          \* /post-listing and /upload requests, in arrival order
    lastResp       \* response of the last signup/login/logout/read request

vars == <<variant, users, session, gridFSBucket, now, nextOid, blobs,
          listings, reqs, lastResp>>

UsesGridFS == variant \in {"gridfs_listing", "gridfs_mem"}
\* the storage engine handed to multer for /post-listing
StorageEngine ==
    CASE variant \in {"session_cloud", "body_cloud", "token_cloud"} -> "cloud"
      [] variant = "disk" -> "disk"
      [] variant = "gridfs_mem" -> "memory"
      [] OTHER -> "none"

Resp(route, status, body) == [route |-> route, status |-> status, body |-> body]
NoResp == Resp("", 0, <<>>)

Init ==
    /\ variant \in Variants
    /\ users = {}
    /\ session = 0
    /\ gridFSBucket = FALSE
    /\ now = 0
    /\ nextOid = 1
    /\ blobs = {}
    /\ listings = <<>>
    /\ reqs = <<>>
    /\ lastResp = NoResp

ReqIds == 1..Len(reqs)
\* the requests that have arrived and that the server has not finished with
InFlight == {r \in ReqIds : reqs[r].pc \notin {"done", "hung"}}
\* the server takes another request
Idle == Cardinality(InFlight) < MaxInFlight
\* ... and the run has room for another /post-listing or /upload
CanArrive == Len(reqs) < MaxReq /\ Idle

UserIds == {u.id : u \in users}
UserByEmail(e) == {u \in users : u.email = e}

\* conn.once("open", ...)
ConnOpen ==
    /\ UsesGridFS
    /\ ~gridFSBucket
    /\ gridFSBucket' = TRUE
    /\ UNCHANGED <<variant, users, session, now, nextOid, blobs, listings,
                   reqs>>
    /\ lastResp' = NoResp

\* the wall clock advances
Tick ==
    /\ now < MaxClock
    /\ now' = now + 1
    /\ UNCHANGED <<variant, users, session, gridFSBucket, nextOid, blobs,
                   listings, reqs>>
    /\ lastResp' = NoResp

\* the variants whose signup looks the email up before saving
SignupChecksFirst == variant \in {"session_cloud", "token_cloud"}

\* POST /signup
Signup(email) ==
    /\ Idle
    /\ UserByEmail(email) = {} => Cardinality(users) < MaxUsers
    /\ IF UserByEmail(email) # {}
       THEN /\ lastResp' = Resp("signup", IF SignupChecksFirst THEN 400 ELSE 500, <<>>)
            /\ UNCHANGED users
       ELSE /\ users' = users \cup {[id |-> Cardinality(users) + 1, email |-> email]}
            /\ lastResp' = Resp("signup", 200, <<>>)
    /\ UNCHANGED <<variant, session, gridFSBucket, now, nextOid, blobs,
                   listings, reqs>>

\* the variants whose login stores the user in the session instead of a token
UsesSession == variant = "session_cloud"

\* POST /login
Login(email, passwordOk) ==
    /\ Idle
    /\ IF UserByEmail(email) = {} \/ ~passwordOk
       THEN /\ lastResp' = Resp("login", 400, <<>>)
            /\ UNCHANGED session
       ELSE LET user == CHOOSE u \in UserByEmail(email) : TRUE
            IN /\ lastResp' = Resp("login", 200, <<>>)
               /\ IF UsesSession
                  THEN session' = user.id
                  ELSE UNCHANGED session
    /\ UNCHANGED <<variant, users, gridFSBucket, now, nextOid, blobs, listings, reqs>>

\* POST /logout
Logout ==
    /\ Idle
    /\ UsesSession
    /\ session' = 0
    /\ lastResp' = Resp("logout", 200, <<>>)
    /\ UNCHANGED <<variant, users, gridFSBucket, now, nextOid, blobs,
                   listings, reqs>>

\* ------------------------------------------------------------- requests
NewReq(route, pc, cred, bodyUserId) ==
    [route |-> route, pc |-> pc, cred |-> cred, bodyUserId |-> bodyUserId,
     user |-> 0, files |-> <<>>, nfiles |-> 0, err |-> "none",
     desc |-> DescUnread, title |-> "", status |-> 0, puts |-> 0, removed |-> 0,
     dbFault |-> FALSE, listing |-> 0]

SetReq(r, rec) == reqs' = [reqs EXCEPT ![r] = rec]
\* the response is sent; req.files is garbage from here on
Respond(rec, code) == [rec EXCEPT !.status = code, !.pc = "done", !.files = <<>>]

\* what a client can put in the Authorization header or the session cookie
CredInputs ==
    IF UsesSession
    THEN {IF session = 0 THEN NoCred ELSE Cred("session", session, "ok")}
    ELSE {NoCred} \cup {Cred("token", u, "ok") : u \in UserIds}
         \cup (IF variant = "token_cloud" THEN {Cred("token", 1, "forged")} ELSE {})
BodyUserIds == 0..MaxUsers

Forms == {[title |-> "Puppy", price |-> 50], [title |-> "", price |-> 50]}

\* the first middleware of POST /post-listing
FirstMiddleware ==
    CASE variant \in {"session_cloud", "token_cloud"} -> "auth"
      [] OTHER -> "upload"

\* a multipart POST /post-listing arrives
ReceivePostListing(cred, bodyUserId) ==
    /\ variant # "gridfs_listing"
    /\ CanArrive
    /\ Cardinality({r \in ReqIds : reqs[r].route = "post-listing"}) < MaxMultipart
    /\ reqs' = Append(reqs, NewReq("post-listing", FirstMiddleware, cred, bodyUserId))
    /\ UNCHANGED <<variant, users, session, gridFSBucket, now, nextOid, blobs,
                   listings>>
    /\ lastResp' = NoResp

authenticateToken(r) ==
    /\ variant = "token_cloud"
    /\ reqs[r].pc = "auth"
    /\ LET rec == reqs[r]
       IN IF rec.cred.kind # "token"
          THEN SetReq(r, Respond(rec, 401))
          ELSE IF ~JwtVerify(rec.cred)
          THEN SetReq(r, Respond(rec, 403))
          ELSE SetReq(r, [rec EXCEPT !.user = rec.cred.uid, !.pc = "upload"])
    /\ UNCHANGED <<variant, users, session, gridFSBucket, now, nextOid, blobs,
                   listings>>
    /\ lastResp' = NoResp

authenticateSession(r) ==
    /\ variant = "session_cloud"
    /\ reqs[r].pc = "auth"
    /\ LET rec == reqs[r]
       IN IF rec.cred.kind # "session" \/ rec.cred.uid = 0
          THEN SetReq(r, Respond(rec, 401))
          ELSE SetReq(r, [rec EXCEPT !.user = rec.cred.uid, !.pc = "upload"])
    /\ UNCHANGED <<variant, users, session, gridFSBucket, now, nextOid, blobs,
                   listings>>
    /\ lastResp' = NoResp

\* --------------------------------------------- upload.array("media", 6)
File(name, key, state, content) ==
    [name |-> name, key |-> key, state |-> state, content |-> content]
Pending(rec) == {i \in 1..Len(rec.files) : rec.files[i].state = "pending"}
Stored(rec) == {i \in 1..Len(rec.files) : rec.files[i].state = "stored"}

\* the user id the Cloudinary public_id is built from
PublicIdUser(rec) ==
    IF variant = "body_cloud" THEN rec.bodyUserId ELSE rec.user

\* the name the storage engine gives a file when its upload starts
StorageKey(rec, name) ==
    CASE StorageEngine = "cloud" -> PublicId(PublicIdUser(rec), now)
      [] StorageEngine = "disk" -> DiskFilename(now, name)
      [] OTHER -> NullRef

Blob(key, filename, content) == [key |-> key, filename |-> filename, content |-> content]
WriteBlob(store, key, filename, content) ==
    {b \in store : b.key # key} \cup {Blob(key, filename, content)}

\* the next file part of the multipart body reaches multer: over the limit it
\* is LIMIT_UNEXPECTED_FILE, otherwise storage._handleFile starts
FileArrives(r, name) ==
    /\ reqs[r].route = "post-listing"
    /\ reqs[r].pc = "upload"
    /\ reqs[r].err = "none"
    /\ \A i \in Pending(reqs[r]) : Len(reqs[r].files) - i < MaxLag
    /\ LET rec == reqs[r]
       IN IF Len(rec.files) >= MaxCount
          THEN SetReq(r, [rec EXCEPT !.err = "limit", !.nfiles = @ + 1])
          ELSE SetReq(r, [rec EXCEPT
                   !.files = Append(@, File(name, StorageKey(rec, name), "pending",
                                            <<r, Len(rec.files) + 1>>)),
                   !.nfiles = @ + 1,
                   !.puts = IF StorageEngine = "memory" THEN @ ELSE @ + 1])
    /\ UNCHANGED <<variant, users, session, gridFSBucket, now, nextOid, blobs,
                   listings>>
    /\ lastResp' = NoResp

\* storage._handleFile of file i calls back, with the stored file or an error
FileStored(r, i, ok) ==
    /\ reqs[r].route = "post-listing"
    /\ reqs[r].pc = "upload"
    /\ i \in Pending(reqs[r])
    /\ ok \/ StorageEngine # "memory"
    /\ LET rec == reqs[r]
           f == rec.files[i]
       IN IF ok
          THEN /\ SetReq(r, [rec EXCEPT !.files[i].state = "stored"])
               /\ blobs' = IF StorageEngine = "memory" THEN blobs
                           ELSE WriteBlob(blobs, f.key, f.name, f.content)
          ELSE /\ SetReq(r, [rec EXCEPT !.files[i].state = "failed",
                                        !.err = IF @ = "none" THEN "storage" ELSE @])
               /\ UNCHANGED blobs
    /\ UNCHANGED <<variant, users, session, gridFSBucket, now, nextOid,
                   listings>>
    /\ lastResp' = NoResp

\* the middleware after upload.array
AfterUpload ==
    CASE variant \in {"gridfs_mem", "disk"} -> "validate"
      [] OTHER -> "handler"

\* the multipart body ends, every write has called back: next()
UploadDone(r) ==
    /\ reqs[r].route = "post-listing"
    /\ reqs[r].pc = "upload"
    /\ reqs[r].err = "none"
    /\ Pending(reqs[r]) = {}
    /\ SetReq(r, [reqs[r] EXCEPT !.pc = AfterUpload])
    /\ UNCHANGED <<variant, users, session, gridFSBucket, now, nextOid, blobs,
                   listings>>
    /\ lastResp' = NoResp

\* multer's abortWithError: once no write is pending, storage._removeFile for
\* every uploaded file, then next(err); no error middleware is installed, so
\* express answers 500
UploadAbort(r) ==
    /\ reqs[r].route = "post-listing"
    /\ reqs[r].pc = "upload"
    /\ reqs[r].err # "none"
    /\ Pending(reqs[r]) = {}
    /\ LET rec == reqs[r]
           gone == {rec.files[i].key : i \in Stored(rec)}
       IN /\ blobs' = IF StorageEngine = "memory" THEN blobs
                      ELSE {b \in blobs : b.key \notin gone}
          /\ SetReq(r, Respond([rec EXCEPT !.removed = Cardinality(Stored(rec))], 500))
    /\ UNCHANGED <<variant, users, session, gridFSBucket, now, nextOid,
                   listings>>
    /\ lastResp' = NoResp

\* validateDescription middleware
validateDescription(r, description) ==
    /\ reqs[r].route = "post-listing"
    /\ reqs[r].pc = "validate"
    /\ LET rec == [reqs[r] EXCEPT !.desc = description]
       IN IF PhoneRegexTest(description)
          THEN SetReq(r, Respond(rec, 400))
          ELSE SetReq(r, [rec EXCEPT !.pc = "handler"])
    /\ UNCHANGED <<variant, users, session, gridFSBucket, now, nextOid, blobs,
                   listings>>
    /\ lastResp' = NoResp

\* ------------------------------------------------------ Listing collection
Listing(userId, form, description, media, req) ==
    [userId |-> userId, title |-> form.title, price |-> form.price,
     description |-> description, media |-> media, dateTime |-> now, req |-> req]

\* listingSchema: the validators that run in newListing.save()
listingSchema(doc) ==
    IF variant \in {"session_cloud", "token_cloud"}
    THEN doc.userId # 0 /\ doc.title # ""
    ELSE TRUE

\* the value the handler stores in media for an uploaded file
MediaOf(f) ==
    CASE StorageEngine = "memory" -> NullRef   \* file.id is undefined
      [] OTHER -> f.key

\* the user id the handler stores in the listing
ListingUser(rec) ==
    IF variant \in {"session_cloud", "token_cloud"} THEN rec.user ELSE rec.bodyUserId

\* the handler of the multipart POST /post-listing
PostListing(r, form, description, dbOk) ==
    /\ reqs[r].route = "post-listing"
    /\ reqs[r].pc = "handler"
    /\ reqs[r].desc # DescUnread => description = reqs[r].desc
    /\ LET rec == [reqs[r] EXCEPT !.desc = description, !.title = form.title]
           media == [i \in 1..Len(rec.files) |-> MediaOf(rec.files[i])]
           doc == Listing(ListingUser(rec), form, description, media, r)
       IN IF Len(rec.files) = 0
          THEN SetReq(r, Respond(rec, 400)) /\ UNCHANGED listings
          ELSE IF variant = "disk" /\ Len(rec.files) > MaxCount
          THEN SetReq(r, Respond(rec, 400)) /\ UNCHANGED listings
          ELSE IF ~listingSchema(doc)
          THEN SetReq(r, Respond(rec, 500)) /\ UNCHANGED listings
          ELSE IF ~dbOk
          THEN SetReq(r, Respond([rec EXCEPT !.dbFault = TRUE], 500)) /\ UNCHANGED listings
          ELSE /\ listings' = Append(listings, doc)
               /\ SetReq(r, Respond([rec EXCEPT !.listing = Len(listings) + 1], 200))
    /\ UNCHANGED <<variant, users, session, gridFSBucket, now, nextOid, blobs>>
    /\ lastResp' = NoResp

\* the lengths of the media array of a JSON submission
JsonMediaCounts == {0, 1, MaxCount + 1}
\* a well-formed id string that names no stored file
DanglingRef == OidString(0)
JsonRefs == {NullRef, DanglingRef} \cup {OidString(n) : n \in 1..(nextOid - 1)}

\* POST /post-listing that replaces the user's listing instead of adding one
PostListingJson_replace(cred, userId, form, description, n, ref, dbOk) ==
    /\ variant = "gridfs_listing"
    /\ CanArrive
    /\ LET r == Len(reqs) + 1
           media == [i \in 1..n |-> ref]
           rec == [NewReq("post-listing", "handler", cred, userId) EXCEPT
                       !.desc = description, !.title = form.title, !.nfiles = n]
           doc == Listing(userId, form, description, media, r)
       IN IF userId = 0 \/ form.title = "" \/ form.price = 0 \/ n = 0
          THEN reqs' = Append(reqs, Respond(rec, 400)) /\ UNCHANGED listings
          ELSE IF ~dbOk
          THEN reqs' = Append(reqs, Respond([rec EXCEPT !.dbFault = TRUE], 500))
               /\ UNCHANGED listings
          ELSE /\ listings' = <<doc>>
               /\ reqs' = Append(reqs, Respond([rec EXCEPT !.listing = 1], 200))
    /\ UNCHANGED <<variant, users, session, gridFSBucket, now, nextOid, blobs>>
    /\ lastResp' = NoResp

\* POST /post-listing of src/server.js: a JSON body, media are references
PostListingJson(cred, userId, form, description, n, ref, dbOk) ==
    /\ variant = "gridfs_listing"
    /\ CanArrive
    /\ LET r == Len(reqs) + 1
           media == [i \in 1..n |-> ref]
           rec == [NewReq("post-listing", "handler", cred, userId) EXCEPT
                       !.desc = description, !.title = form.title, !.nfiles = n]
           doc == Listing(userId, form, description, media, r)
       IN IF userId = 0 \/ form.title = "" \/ form.price = 0 \/ n = 0
          THEN reqs' = Append(reqs, Respond(rec, 400)) /\ UNCHANGED listings
          ELSE IF ~listingSchema(doc)
          THEN reqs' = Append(reqs, Respond(rec, 500)) /\ UNCHANGED listings
          ELSE IF ~dbOk
          THEN reqs' = Append(reqs, Respond([rec EXCEPT !.dbFault = TRUE], 500))
               /\ UNCHANGED listings
          ELSE /\ listings' = Append(listings, doc)
               /\ reqs' = Append(reqs, Respond([rec EXCEPT !.listing = Len(listings) + 1], 200))
    /\ UNCHANGED <<variant, users, session, gridFSBucket, now, nextOid, blobs>>
    /\ lastResp' = NoResp

\* ------------------------------------------------------------ POST /upload
\* upload.single("file") with memoryStorage, then the handler up to the
\* registration of the "finish" listener
Upload(cred, hasFile, name) ==
    /\ UsesGridFS
    /\ CanArrive
    /\ LET r == Len(reqs) + 1
           rec == NewReq("upload", "handler", cred, 0)
           f == File(name, OidString(nextOid), "pending", <<r, 1>>)
       IN IF ~hasFile
          THEN reqs' = Append(reqs, Respond(rec, 400)) /\ UNCHANGED nextOid
          ELSE IF ~gridFSBucket
          THEN \* TypeError on undefined, caught
               reqs' = Append(reqs, Respond([rec EXCEPT !.nfiles = 1], 500))
               /\ UNCHANGED nextOid
          ELSE /\ reqs' = Append(reqs, [rec EXCEPT !.files = <<f>>, !.nfiles = 1,
                                                   !.puts = 1, !.pc = "stream"])
               /\ nextOid' = nextOid + 1
    /\ UNCHANGED <<variant, users, session, gridFSBucket, now, blobs,
                   listings>>
    /\ lastResp' = NoResp

\* uploadStream emits "finish"
UploadFinish(r, form, description, dbOk) ==
    /\ reqs[r].route = "upload"
    /\ reqs[r].pc = "stream"
    /\ LET f == reqs[r].files[1]
           stored == [reqs[r] EXCEPT !.files[1].state = "stored"]
           rec == [stored EXCEPT !.desc = description, !.title = form.title]
           doc == Listing(0, form, description, <<f.key>>, r)
       IN /\ blobs' = WriteBlob(blobs, f.key, f.name, f.content)
          /\ IF variant = "gridfs_mem"
             THEN /\ form = CHOOSE x \in Forms : TRUE
                  /\ description = CHOOSE x \in DescSamples : TRUE
                  /\ dbOk
                  /\ SetReq(r, Respond(stored, 200))
                  /\ UNCHANGED listings
             ELSE IF listingSchema(doc) /\ dbOk
             THEN /\ listings' = Append(listings, doc)
                  /\ SetReq(r, Respond([rec EXCEPT !.listing = Len(listings) + 1], 200))
             ELSE \* save() rejects inside the listener: nothing answers
                  /\ SetReq(r, [rec EXCEPT !.dbFault = TRUE, !.pc = "hung"])
                  /\ UNCHANGED listings
    /\ UNCHANGED <<variant, users, session, gridFSBucket, now, nextOid>>
    /\ lastResp' = NoResp

\* uploadStream emits "error": no listener is registered, nothing answers
UploadError(r) ==
    /\ reqs[r].route = "upload"
    /\ reqs[r].pc = "stream"
    /\ SetReq(r, [reqs[r] EXCEPT !.files[1].state = "failed", !.err = "storage",
                                 !.pc = "hung"])
    /\ UNCHANGED <<variant, users, session, gridFSBucket, now, nextOid, blobs,
                   listings>>
    /\ lastResp' = NoResp

\* ------------------------------------------------------------------ reads
ImageUrl(fileId) == [base |-> "https://backend-petdealz.onrender.com/image/", ref |-> fileId]
Placeholder == [base |-> "default.jpg", ref |-> NullRef]

\* fileId ? `https://backend-petdealz.onrender.com/image/${fileId}` : 'default.jpg'
ExpandRef(fileId) == IF fileId # NullRef THEN ImageUrl(fileId) ELSE Placeholder

\* the listing as GET /get-listings returns it
ListingView(doc) ==
    IF UsesGridFS
    THEN [doc EXCEPT !.media = [i \in 1..Len(doc.media) |-> ExpandRef(doc.media[i])]]
    ELSE doc

\* the body of GET /get-listings
ListBody == [i \in 1..Len(listings) |-> ListingView(listings[i])]

\* GET /get-listings that saves the expanded documents back
GetListings_writeback(dbOk) ==
    /\ Idle
    /\ variant \in {"gridfs_listing", "gridfs_mem", "disk"}
    /\ lastResp' = IF dbOk THEN Resp("get-listings", 200, ListBody)
                   ELSE Resp("get-listings", 500, <<>>)
    /\ listings' = IF dbOk THEN ListBody ELSE listings
    /\ UNCHANGED <<variant, users, session, gridFSBucket, now, nextOid, blobs,
                   reqs>>

\* GET /get-listings
GetListings(dbOk) ==
    /\ Idle
    /\ variant \in {"gridfs_listing", "gridfs_mem", "disk"}
    /\ lastResp' = IF dbOk THEN Resp("get-listings", 200, ListBody)
                   ELSE Resp("get-listings", 500, <<>>)
    /\ UNCHANGED <<variant, users, session, gridFSBucket, now, nextOid, blobs,
                   listings, reqs>>

\* Listing.find({ userId })
FindByUser(userId) ==
    LET F[i \in 0..Len(listings)] ==
            IF i = 0 THEN <<>>
            ELSE IF listings[i].userId = userId THEN Append(F[i - 1], listings[i])
            ELSE F[i - 1]
    IN F[Len(listings)]

\* GET /my-listings (session, token) and GET /my-listings/:userId
MyListings(cred, userId, dbOk) ==
    /\ Idle
    /\ variant \in {"session_cloud", "token_cloud", "body_cloud"}
    /\ variant # "body_cloud" => userId = cred.uid
    /\ lastResp' =
         IF variant = "token_cloud" /\ cred.kind # "token"
         THEN Resp("my-listings", 401, <<>>)
         ELSE IF variant = "token_cloud" /\ ~JwtVerify(cred)
         THEN Resp("my-listings", 403, <<>>)
         ELSE IF variant = "session_cloud" /\ (cred.kind # "session" \/ cred.uid = 0)
         THEN Resp("my-listings", 401, <<>>)
         ELSE IF dbOk THEN Resp("my-listings", 200, FindByUser(userId))
         ELSE Resp("my-listings", 500, <<>>)
    /\ UNCHANGED <<variant, users, session, gridFSBucket, now, nextOid, blobs,
                   listings, reqs>>

\* the :filename / :id values a client can ask for
ImageParams == {OidString(n) : n \in 1..nextOid} \cup {NameString(f) : f \in FileNames}

\* bucket.openDownloadStreamByName(filename): the newest file of that name
FilesByName(param) == {b \in blobs : param.kind = "name" /\ b.filename = param.name}
NewestByName(param) ==
    CHOOSE b \in FilesByName(param) : \A c \in FilesByName(param) : c.key.oid <= b.key.oid
\* db.collection("uploads.files").findOne({ _id })
FilesById(param) == {b \in blobs : b.key = param}

\* what GET /image/<param> answers: [status, content]; status 0 is no answer
ImageLookup(param) ==
    IF variant = "gridfs_listing"
    THEN IF ~gridFSBucket THEN Resp("image", 0, <<>>)
         ELSE IF FilesByName(param) = {} THEN Resp("image", 0, <<>>)
         ELSE Resp("image", 200, NewestByName(param).content)
    ELSE IF param.kind # "oid" THEN Resp("image", 400, <<>>)
         ELSE IF ~gridFSBucket THEN Resp("image", 500, <<>>)
         ELSE IF FilesById(param) = {} THEN Resp("image", 404, <<>>)
         ELSE Resp("image", 200, (CHOOSE b \in FilesById(param) : TRUE).content)

\* In src/server.js, before the connection is open, new GridFSBucket(undefined)
\* throws outside the try of the async handler: express 4 leaves the request
\* unanswered, express 5 forwards the rejection and answers 500.
ImageOutcomes(param) ==
    IF variant = "gridfs_listing" /\ ~gridFSBucket
    THEN {Resp("image", 0, <<>>), Resp("image", 500, <<>>)}
    ELSE {ImageLookup(param)}

\* GET /image/:filename (src/server.js), GET /image/:id (part_002)
GetImage(param) ==
    /\ Idle
    /\ UsesGridFS
    /\ lastResp' \in ImageOutcomes(param)
    /\ UNCHANGED <<variant, users, session, gridFSBucket, now, nextOid, blobs,
                   listings, reqs>>

\* ------------------------------------------------------------ specification
Next ==
    \/ ConnOpen
    \/ Tick
    \/ \E e \in Emails : Signup(e)
    \/ \E e \in Emails, ok \in BOOLEAN : Login(e, ok)
    \/ Logout
    \/ \E c \in CredInputs, b \in BodyUserIds : ReceivePostListing(c, b)
    \/ \E r \in ReqIds : authenticateToken(r)
    \/ \E r \in ReqIds : authenticateSession(r)
    \/ \E r \in ReqIds, f \in FileNames : FileArrives(r, f)
    \/ \E r \in ReqIds, i \in 1..MaxCount, ok \in BOOLEAN : FileStored(r, i, ok)
    \/ \E r \in ReqIds : UploadDone(r)
    \/ \E r \in ReqIds : UploadAbort(r)
    \/ \E r \in ReqIds, d \in DescSamples : validateDescription(r, d)
    \/ \E r \in ReqIds, f \in Forms, d \in DescSamples, ok \in BOOLEAN : PostListing(r, f, d, ok)
    \/ \E c \in CredInputs, b \in BodyUserIds, f \in Forms, d \in DescSamples,
          n \in JsonMediaCounts, ref \in JsonRefs, ok \in BOOLEAN :
            PostListingJson(c, b, f, d, n, ref, ok)
    \/ \E c \in CredInputs, h \in BOOLEAN, f \in FileNames : Upload(c, h, f)
    \/ \E r \in ReqIds, f \in Forms, d \in DescSamples, ok \in BOOLEAN : UploadFinish(r, f, d, ok)
    \/ \E r \in ReqIds : UploadError(r)
    \/ \E ok \in BOOLEAN : GetListings(ok)
    \/ \E c \in CredInputs, u \in BodyUserIds, ok \in BOOLEAN : MyListings(c, u, ok)
    \/ \E p \in ImageParams : GetImage(p)

Spec == Init /\ [][Next]_vars

\* --------------------------------------------- POST /signup, step by step
\* The handler awaits User.findOne (where it has one) and newUser.save(), so
\* other signups run between the two. The unique index on email makes save()
\* fail for an email that is stored.
SignupEmails == {"a@x", "b@x"}

SignupReq(email, pc, dup) ==
    [route |-> "signup", pc |-> pc, email |-> email, status |-> 0, dup |-> dup,
     added |-> FALSE, dbFault |-> FALSE]

InitSignup ==
    /\ variant \in Variants
    /\ users = {}
    /\ session = 0
    /\ gridFSBucket = FALSE
    /\ now = 0
    /\ nextOid = 1
    /\ blobs = {}
    /\ listings = <<>>
    /\ reqs = <<>>
    /\ lastResp = NoResp

\* a POST /signup arrives
SignupArrives(email) ==
    /\ Len(reqs) < MaxSignups
    /\ reqs' = Append(reqs, SignupReq(email,
                                      IF SignupChecksFirst THEN "find" ELSE "save",
                                      UserByEmail(email) # {}))
    /\ UNCHANGED <<variant, users, session, gridFSBucket, now, nextOid, blobs,
                   listings, lastResp>>

\* await User.findOne({ email }) returns
SignupFindOne(r, dbOk) ==
    /\ reqs[r].pc = "find"
    /\ LET rec == reqs[r]
       IN IF ~dbOk
          THEN SetReq(r, [rec EXCEPT !.status = 500, !.pc = "done", !.dbFault = TRUE])
          ELSE IF UserByEmail(rec.email) # {}
          THEN SetReq(r, [rec EXCEPT !.status = 400, !.pc = "done"])
          ELSE SetReq(r, [rec EXCEPT !.pc = "save"])
    /\ UNCHANGED <<variant, users, session, gridFSBucket, now, nextOid, blobs,
                   listings, lastResp>>

\* await newUser.save() without a unique index on email
SignupSave_noindex(r, dbOk) ==
    /\ reqs[r].pc = "save"
    /\ LET rec == reqs[r]
       IN IF ~dbOk
          THEN /\ SetReq(r, [rec EXCEPT !.status = 500, !.pc = "done", !.dbFault = TRUE])
               /\ UNCHANGED users
          ELSE /\ users' = users \cup {[id |-> Cardinality(users) + 1, email |-> rec.email]}
               /\ SetReq(r, [rec EXCEPT !.status = 200, !.pc = "done", !.added = TRUE])
    /\ UNCHANGED <<variant, session, gridFSBucket, now, nextOid, blobs,
                   listings, lastResp>>

\* await newUser.save() returns
SignupSave(r, dbOk) ==
    /\ reqs[r].pc = "save"
    /\ LET rec == reqs[r]
       IN IF ~dbOk
          THEN /\ SetReq(r, [rec EXCEPT !.status = 500, !.pc = "done", !.dbFault = TRUE])
               /\ UNCHANGED users
          ELSE IF UserByEmail(rec.email) # {}
          THEN \* E11000 duplicate key, caught
               /\ SetReq(r, [rec EXCEPT !.status = 500, !.pc = "done"])
               /\ UNCHANGED users
          ELSE /\ users' = users \cup {[id |-> Cardinality(users) + 1, email |-> rec.email]}
               /\ SetReq(r, [rec EXCEPT !.status = 200, !.pc = "done", !.added = TRUE])
    /\ UNCHANGED <<variant, session, gridFSBucket, now, nextOid, blobs,
                   listings, lastResp>>

NextSignup ==
    \/ \E e \in SignupEmails : SignupArrives(e)
    \/ \E r \in ReqIds, ok \in BOOLEAN : SignupFindOne(r, ok)
    \/ \E r \in ReqIds, ok \in BOOLEAN : SignupSave(r, ok)

SpecSignup == InitSignup /\ [][NextSignup]_vars

\* ------------------------------------------- the content policy on its own
\* The descriptions the policy is tried on: up to MaxRuns runs of a digit, a
\* letter, an underscore or a blank, each of a length around MinDigits.
RunChars == {"5", "a", "_", " "}
RunLens == {1, MinDigits - 1, MinDigits, MinDigits + 1}
Run(c, n) == [i \in 1..n |-> c]
RECURSIVE DescsOfRuns(_)
DescsOfRuns(k) ==
    IF k = 0 THEN {<<>>}
    ELSE {d \o Run(c, n) : d \in DescsOfRuns(k - 1), c \in RunChars, n \in RunLens}
PolicyDescs == UNION {DescsOfRuns(k) : k \in 1..MaxRuns}

\* a submission without files has reached validateDescription
InitPolicy ==
    /\ variant \in {"gridfs_mem", "disk"}
    /\ users = {}
    /\ session = 0
    /\ gridFSBucket = FALSE
    /\ now = 0
    /\ nextOid = 1
    /\ blobs = {}
    /\ listings = <<>>
    /\ reqs = <<NewReq("post-listing", "validate", NoCred, 0)>>
    /\ lastResp = NoResp

NextPolicy == \E d \in PolicyDescs : validateDescription(1, d)

SpecPolicy == InitPolicy /\ [][NextPolicy]_vars

\* ------------------------------------------------------------------ claims
\* the user the spec's IdentityContext resolves from a credential (0: none)
VerifiedUser(cred) ==
    IF (cred.kind = "token" /\ cred.sig = "ok") \/ (cred.kind = "session" /\ cred.uid # 0)
    THEN cred.uid
    ELSE 0
\* the rule of the spec's ContentPolicy: a run of n or more consecutive digits
HasDigitRun(s, n) ==
    \E i \in 1..Len(s) : \E j \in i..Len(s) :
        /\ j - i + 1 >= n
        /\ \A k \in i..j : IsDigit(s[k])

Submissions == {r \in ReqIds : reqs[r].route = "post-listing"}
Answered(r) == reqs[r].pc = "done"
ListingsOf(r) == {k \in 1..Len(listings) : listings[k].req = r}
BlobsWithKey(key) == {b \in blobs : b.key = key}

\* C1: a submission whose description the content policy rejects is rejected
\* (answered, and not with 200), and no MediaStore.put has been invoked for it
\* and no listing stored.
C1_ValidateThenStore ==
    \A r \in Submissions :
        (reqs[r].desc # DescUnread /\ PhoneRegexTest(reqs[r].desc)) =>
            /\ Answered(r) /\ reqs[r].status # 200
            /\ reqs[r].puts = 0
            /\ ListingsOf(r) = {}

\* C2: a submission without a valid credential is rejected before any
\* MediaStore.put and before any create: it is never answered 200 and has no
\* put and no listing.
C2_FailFastAuth ==
    \A r \in Submissions :
        VerifiedUser(reqs[r].cred) = 0 =>
            /\ Answered(r) => reqs[r].status # 200
            /\ reqs[r].puts = 0
            /\ ListingsOf(r) = {}

\* C3: an answered submission (not rejected for its credential, and meeting
\* no database fault) that carried 0 or more than MaxCount media payloads was
\* answered 400, with no put and no listing.
C3_MediaCountViolation ==
    \A r \in Submissions :
        (/\ Answered(r)
         /\ reqs[r].status \notin {401, 403}
         /\ ~reqs[r].dbFault
         /\ (reqs[r].nfiles = 0 \/ reqs[r].nfiles > MaxCount)) =>
            /\ reqs[r].status = 400
            /\ reqs[r].puts = 0
            /\ ListingsOf(r) = {}

\* C4: every stored listing has between 1 and MaxCount media.
C4_MediaLengthInvariant ==
    \A k \in 1..Len(listings) :
        Len(listings[k].media) >= 1 /\ Len(listings[k].media) <= MaxCount

\* a multipart submission that nothing entitles the server to refuse: 1 to
\* MaxCount files, text the policy accepts, a title, no storage or database
\* fault, and a credential where the server asks for one
ValidSubmission(r) ==
    /\ r \in Submissions
    /\ variant # "gridfs_listing"
    /\ Answered(r)
    /\ reqs[r].status \notin {401, 403}
    /\ reqs[r].nfiles >= 1 /\ reqs[r].nfiles <= MaxCount
    /\ reqs[r].desc # DescUnread /\ ~PhoneRegexTest(reqs[r].desc)
    /\ reqs[r].title # ""
    /\ reqs[r].err = "none" /\ ~reqs[r].dbFault

\* C5: a valid submission with n files succeeds and is stored (and listed)
\* with n media, the i-th being a reference to a stored payload.
C5_SubmitThenList ==
    \A r \in ReqIds :
        ValidSubmission(r) =>
            /\ reqs[r].status = 200
            /\ reqs[r].listing \in 1..Len(listings)
            /\ LET media == listings[reqs[r].listing].media
               IN /\ Len(media) = reqs[r].nfiles
                  /\ \A i \in 1..Len(media) :
                        media[i] # NullRef /\ BlobsWithKey(media[i]) # {}

\* C6: the userId of every stored listing is the user that the credential of
\* the creating request verifies as.
C6_OwnerFromCredential ==
    \A k \in 1..Len(listings) :
        listings[k].userId = VerifiedUser(reqs[listings[k].req].cred)

\* C7: validateDescription rejects a description if and only if it contains a
\* run of MinDigits or more consecutive digits.
C7_RejectsIffDigitRun ==
    \A r \in Submissions :
        (reqs[r].desc # DescUnread /\ reqs[r].pc \in {"handler", "done"}) =>
            ((reqs[r].status = 400) <=> HasDigitRun(reqs[r].desc, MinDigits))

\* C8: when a MediaStore.put of a request has failed, no listing is stored for
\* the request, and once the server is through with it the caller has a 500.
C8_FailureIsolation ==
    \A r \in ReqIds :
        reqs[r].err = "storage" =>
            /\ ListingsOf(r) = {}
            /\ reqs[r].pc \in {"done", "hung"} => reqs[r].status = 500

\* C9: every media URL that GET /get-listings returns for a listing created by
\* /upload or a multipart submission is an image URL whose key GET /image
\* answers with the payload uploaded at that position.
C9_RoundTrip ==
    UsesGridFS =>
        \A k \in 1..Len(listings) :
            (reqs[listings[k].req].route = "upload" \/ variant = "gridfs_mem") =>
                \A i \in 1..Len(listings[k].media) :
                    /\ ListBody[k].media[i] = ImageUrl(listings[k].media[i])
                    /\ ImageLookup(ListBody[k].media[i].ref)
                         = Resp("image", 200, <<listings[k].req, i>>)

\* the save of the listing failed after the media of the request were stored
CreateFailed(r) ==
    /\ reqs[r].pc \in {"done", "hung"}
    /\ reqs[r].puts > 0
    /\ reqs[r].err = "none"
    /\ reqs[r].dbFault \/ reqs[r].status = 500

\* C10: when the create fails after the media were stored, the caller gets a
\* 500, no listing is stored, and every stored file of the request is removed.
C10_CleanupOnCreateFailure ==
    \A r \in ReqIds :
        CreateFailed(r) =>
            /\ reqs[r].status = 500
            /\ ListingsOf(r) = {}
            /\ reqs[r].removed = reqs[r].puts

\* C11: GET /get-listings never fails because of one bad reference: the media
\* sequence it returns for a listing has the length of the stored one, a null,
\* empty or invalid reference (one that names no stored file) is replaced at
\* its position by the placeholder, and every other reference is expanded to
\* its URL.
C11_ListDegrades ==
    (UsesGridFS /\ lastResp.route = "get-listings" /\ lastResp.status = 200) =>
        /\ Len(lastResp.body) = Len(listings)
        /\ \A k \in 1..Len(listings) :
              /\ Len(lastResp.body[k].media) = Len(listings[k].media)
              /\ \A i \in 1..Len(listings[k].media) :
                    LET ref == listings[k].media[i]
                    IN lastResp.body[k].media[i] =
                         IF ref = NullRef \/ BlobsWithKey(ref) = {}
                         THEN Placeholder
                         ELSE ImageUrl(ref)

\* the list routes, and whether two list responses answer the same query
\* (GET /my-listings is told apart by the owner of the listings it returned)
ListRoutes == {"get-listings", "my-listings"}
OwnersIn(body) == {body[k].userId : k \in 1..Len(body)}
SameQuery(a, b) ==
    /\ a.route = b.route
    /\ a.route = "my-listings" =>
          (OwnersIn(a.body) # {} /\ OwnersIn(a.body) = OwnersIn(b.body))

\* C12: list is a pure read: a step that answers GET /get-listings or
\* GET /my-listings leaves the listings, the media store and the users as they
\* were, and two list calls with no write between them return the same body.
C12_ListIsPureRead ==
    [][lastResp'.route \in ListRoutes =>
          /\ listings' = listings
          /\ blobs' = blobs
          /\ users' = users
          /\ (/\ lastResp.route \in ListRoutes
              /\ lastResp.status = 200 /\ lastResp'.status = 200
              /\ SameQuery(lastResp, lastResp')) =>
                 lastResp'.body = lastResp.body]_vars

\* a list call has returned a stored listing
C12_Witness ==
    /\ lastResp.route \in ListRoutes
    /\ lastResp.status = 200
    /\ Len(lastResp.body) >= 1

\* C13: listings are write-once: whatever request is handled, every listing
\* that was persisted is still there, at its place, with every field unchanged.
C13_WriteOnce ==
    [][\A k \in 1..Len(listings) :
          /\ k <= Len(listings')
          /\ listings'[k] = listings[k]]_vars

\* a persisted listing has outlived a later submission
C13_Witness ==
    /\ Len(listings) >= 2
    /\ listings[1].req < listings[2].req

\* C14: every listing is owned by a registered user: its userId is the id of a
\* User in the user store (users are never removed, so this is also so at the
\* moment the listing is created); no listing has an absent or unknown owner.
C14_OwnerExists ==
    \A k \in 1..Len(listings) : listings[k].userId \in UserIds

\* C16: puts never collide: the files of a submission get pairwise distinct
\* storage keys, also within one clock tick, so no stored blob is overwritten
\* and every reference of a listing resolves to the payload uploaded at its
\* position.
C16_DistinctKeys ==
    /\ \A r \in ReqIds :
          \A i, j \in 1..Len(reqs[r].files) :
              (i # j /\ reqs[r].files[i].key # NullRef) =>
                  reqs[r].files[i].key # reqs[r].files[j].key
    /\ StorageEngine \in {"cloud", "disk"} =>
          \A k \in 1..Len(listings) :
              \A i \in 1..Len(listings[k].media) :
                  \A b \in BlobsWithKey(listings[k].media[i]) :
                      b.content = <<listings[k].req, i>>

\* C17: every POST /upload and GET /image is answered: no /upload request is
\* left with nothing that will answer it (also when the blob write emits an
\* error or the save in the "finish" listener fails), and no GET /image ends
\* without a response.
C17_AlwaysAnswered ==
    /\ \A r \in ReqIds : reqs[r].route = "upload" => reqs[r].pc # "hung"
    /\ lastResp.route = "image" => lastResp.status # 0

\* C18: the GridFS handle is assigned at most once and never unset; an /upload
\* or /image request handled before it is assigned is answered with an error
\* and creates no blob and no listing; once it is assigned, an /upload with a
\* file goes on to the upload stream.
C18_HandleLifecycle ==
    [][/\ gridFSBucket => gridFSBucket'
       /\ \A r \in 1..Len(reqs') :
             (r > Len(reqs) /\ reqs'[r].route = "upload") =>
                 IF gridFSBucket
                 THEN reqs'[r].nfiles = 1 => reqs'[r].pc = "stream"
                 ELSE /\ reqs'[r].pc = "done"
                      /\ reqs'[r].status >= 400
                      /\ reqs'[r].puts = 0
                      /\ blobs' = blobs
                      /\ listings' = listings
       /\ (lastResp'.route = "image" /\ ~gridFSBucket) =>
             /\ lastResp'.status >= 400
             /\ blobs' = blobs
             /\ listings' = listings]_vars

\* the signup requests that have been answered
SignupsDone == {r \in ReqIds : reqs[r].route = "signup" /\ reqs[r].pc = "done"}
UniqueEmails == \A u, v \in users : u.email = v.email => u = v

\* C15: signup keeps emails unique under any interleaving, and a signup for
\* an email that is already registered adds no user and is answered 500.
C15_SignupUnique ==
    /\ UniqueEmails
    /\ \A r \in SignupsDone :
          reqs[r].dup => (~reqs[r].added /\ reqs[r].status = 500)

\* C15 as amended: signup keeps emails unique under any interleaving; a
\* signup for an email that is already registered adds no user and is
\* answered 400 where the handler looks the email up first and 500 (the
\* unique index) where it does not; only a signup answered 200 adds a user.
C15_SignupUniqueAmended ==
    /\ UniqueEmails
    /\ \A r \in SignupsDone :
          /\ reqs[r].added <=> reqs[r].status = 200
          /\ reqs[r].dup =>
                /\ ~reqs[r].added
                /\ ~reqs[r].dbFault =>
                      reqs[r].status = IF SignupChecksFirst THEN 400 ELSE 500

\* two signups for one email both passed the lookup, one of them was saved
\* and the other was refused by the unique index
C15_Witness ==
    /\ SignupChecksFirst
    /\ \E r \in SignupsDone :
          /\ ~reqs[r].dup
          /\ ~reqs[r].dbFault
          /\ reqs[r].status = 500
    /\ \E r \in SignupsDone : reqs[r].dup /\ reqs[r].status = 400

====
